---------------------------- MODULE Spec2Model ----------------------------
(***************************************************************************)
(* A model of src/2048/twenty_forty_eight.py: the board, the traversal     *)
(* tables, the move engine, the undo history and the session               *)
(* (Game2048.start_game / make_move / undo_move / reset_game /             *)
(* clear_best_score).                                                      *)
(*                                                                         *)
(* A Python list is a TLA+ sequence: the list index i is the sequence      *)
(* index i + 1 (At and Put below keep the code's 0-based indices).         *)
(*                                                                         *)
(* The specifications of the module:                                       *)
(*   Spec          a Game2048 session under any calls of its operations    *)
(*   SpecMove      the move engine as a function of (size, grid, key)      *)
(*   SpecHist      a GameHistory under any add_state and undo calls        *)
(*   SpecPushUndo  a GameHistory given distinct grids, then one undo       *)
(*   SpecBoard     GameBoard.is_game_over as a function of (size, grid)    *)
(*   SpecAI        AIPlayer.get_move as a function of its inputs           *)
(*   SpecLoop      the loop of Game2048.run with the automatic player      *)
(* Each leaves the variables of the others at fixed values.                *)
(***************************************************************************)
EXTENDS Integers, Sequences, FiniteSets, TLC

VARIABLES
    \* ---- Game2048 (the session) ----
    board,          \* self.board.board
    score,          \* self.score
    best_score,     \* self.best_score
    state,          \* self.state
    current_player, \* self.current_player: "None", "Human" or "AI"
    stuck_counter,  \* self.ai_player.stuck_counter
    \* ---- GameHistory (self.history in a session) ----
    board_history,  \* self.board_history
    score_history,  \* self.score_history
    \* ---- the call that produced the current state ----
    op,             \* the operation called last
    ret,            \* what it returned
    gain,           \* score_gained of the last make_move (0 where it returned
                    \* before calling GameLogic.make_move)
    before_move,    \* <<grid, score>> just before the last make_move that
                    \* changed the board (<<>> when there is none)
    moves,          \* make_move calls of this game made while Playing
    arg,            \* SpecHist, SpecPushUndo: <<grid, score, n>>, the grid and
                    \* score given to the last add_state and the number of
                    \* entries stored when it was called
    pushed,         \* SpecPushUndo: every <<grid, score>> pushed so far
    \* ---- the move engine applied to one input ----
    t_size,         \* GameBoard.size
    t_board,        \* GameBoard.board before the call
    t_dir,          \* the direction key
    t_pc,           \* "init", then the call that was made
    t_res           \* the result of the call

sessionVars == <<board, score, best_score, state, current_player, stuck_counter>>
historyVars == <<board_history, score_history>>
callVars    == <<op, ret, gain, before_move, moves>>
moveVars    == <<t_size, t_board, t_dir, t_pc, t_res>>
vars == <<sessionVars, historyVars, callVars, arg, pushed, moveVars>>

---------------------------------------------------------------------------
(* Bounds of the model *)

\* SpecMove: board sizes 2..MaxSize
MaxSize == 3
\* SpecMove: input grids hold at most MaxTiles tiles
MaxTiles == 4
\* input tiles are 2^1 .. 2^MaxExp
MaxExp == 2

TileValues == {2^e : e \in 1..MaxExp}

\* The four direction keys of MoveDirection.directions, and one key that is
\* not in it.
Keys == {"w", "a", "s", "d"}
UnknownKey == "x"

---------------------------------------------------------------------------
(* Python lists *)

At(list, i) == list[i + 1]
Put(list, i, v) == [list EXCEPT ![i + 1] = v]

\* list(range(start, stop, step)), step > 0
RECURSIVE Range(_, _, _)
Range(start, stop, step) ==
    IF start >= stop THEN <<>>
    ELSE <<start>> \o Range(start + step, stop, step)

\* list(range(start, stop, -1))
RECURSIVE RangeDown(_, _)
RangeDown(start, stop) ==
    IF start <= stop THEN <<>>
    ELSE <<start>> \o RangeDown(start - 1, stop)

Zeros(n) == [i \in 1..n |-> 0]

---------------------------------------------------------------------------
(* MoveDirection *)

\* a faulty variant of Up: the cells are listed column by column, as in Left
Up_ByColumns(size) ==
    [p \in 1..(size * size) |-> ((p - 1) % size) * size + ((p - 1) \div size)]

Up(size) == Range(0, size * size, 1)

Down(size) == RangeDown(size * size - 1, -1)

\* for i in range(size): left.extend(range(i, total_cells, size))
RECURSIVE LeftFrom(_, _)
LeftFrom(i, size) ==
    IF i >= size THEN <<>>
    ELSE Range(i, size * size, size) \o LeftFrom(i + 1, size)

Left(size) == LeftFrom(0, size)

\* for i in range(size - 1, -1, -1): right.extend(range(i, total_cells, size))
RECURSIVE RightFrom(_, _)
RightFrom(i, size) ==
    IF i <= -1 THEN <<>>
    ELSE Range(i, size * size, size) \o RightFrom(i - 1, size)

\* a faulty variant of Right: the columns are visited left to right, as in Left
Right_Ascending(size) == LeftFrom(0, size)

Right(size) == RightFrom(size - 1, size)

\* self.directions
Directions(size) ==
    [k \in Keys |-> CASE k = "w" -> Up(size)
                      [] k = "a" -> Left(size)
                      [] k = "s" -> Down(size)
                      [] k = "d" -> Right(size)]

---------------------------------------------------------------------------
(* GameLogic._process_move                                                 *)
(*                                                                         *)
(* The loop state is [board, score, merged, twice, made]: board and score   *)
(* are the code's; merged is the set of cells that hold a tile made by a   *)
(* merge of this move, twice says that some merge took such a tile as its  *)
(* target, and made lists the values of the tiles the merges made, in      *)
(* order (the three only observe the run).  add_point is written and never *)
(* read, so it is left out.                                                *)
(***************************************************************************)

\* a faulty variant of MergeInto: the merged tile's old cell is not emptied
MergeInto_KeepSource(st, pos, next_pos) ==
    LET doubled == 2 * At(st.board, next_pos) IN
    [board  |-> Put(st.board, next_pos, doubled),
     score  |-> st.score + doubled,
     merged |-> st.merged \cup {next_pos},
     twice  |-> st.twice \/ next_pos \in st.merged,
     made   |-> Append(st.made, doubled)]

\* a faulty variant of MergeInto: the target grows by 2 instead of doubling
MergeInto_PlusTwo(st, pos, next_pos) ==
    LET doubled == At(st.board, next_pos) + 2 IN
    [board  |-> Put(Put(st.board, next_pos, doubled), pos, 0),
     score  |-> st.score + doubled,
     merged |-> st.merged \cup {next_pos},
     twice  |-> st.twice \/ next_pos \in st.merged,
     made   |-> Append(st.made, doubled)]

\* a faulty variant of MergeInto: the score grows by the value of the moving
\* tile, not by that of the tile the merge makes
MergeInto_ScoreSource(st, pos, next_pos) ==
    LET doubled == 2 * At(st.board, next_pos) IN
    [board  |-> Put(Put(st.board, next_pos, doubled), pos, 0),
     score  |-> st.score + At(st.board, pos),
     merged |-> st.merged \cup {next_pos},
     twice  |-> st.twice \/ next_pos \in st.merged,
     made   |-> Append(st.made, doubled)]

\* the merge branch (lines 225-231)
MergeInto(st, pos, next_pos) ==
    LET doubled == 2 * At(st.board, next_pos) IN
    [board  |-> Put(Put(st.board, next_pos, doubled), pos, 0),
     score  |-> st.score + doubled,
     merged |-> st.merged \cup {next_pos},
     twice  |-> st.twice \/ next_pos \in st.merged,
     made   |-> Append(st.made, doubled)]

\* a faulty variant of ScanBack: the tile stops after its first step
ScanBack_OneStep(st, pos, next_i, move_indices, size) ==
    IF next_i < 0 THEN st
    ELSE LET next_pos == At(move_indices, next_i) IN
         IF At(st.board, next_pos) = 0
         THEN [st EXCEPT !.board =
                  Put(Put(st.board, next_pos, At(st.board, pos)), pos, 0)]
         ELSE IF At(st.board, pos) = At(st.board, next_pos)
         THEN MergeInto(st, pos, next_pos)
         ELSE st

\* the while loop (lines 216-233) for the tile now at pos
RECURSIVE ScanBack(_, _, _, _, _)
ScanBack(st, pos, next_i, move_indices, size) ==
    IF next_i < 0 THEN st
    ELSE LET next_pos == At(move_indices, next_i) IN
         IF At(st.board, next_pos) = 0
         THEN ScanBack([st EXCEPT !.board =
                           Put(Put(st.board, next_pos, At(st.board, pos)), pos, 0)],
                       next_pos, next_i - size, move_indices, size)
         ELSE IF At(st.board, pos) = At(st.board, next_pos)
         THEN MergeInto(st, pos, next_pos)
         ELSE st

\* the for loop (lines 209-233) from position i on
RECURSIVE ProcessFrom(_, _, _, _)
ProcessFrom(st, i, move_indices, size) ==
    IF i >= size * size THEN st
    ELSE LET pos == At(move_indices, i) IN
         IF At(st.board, pos) = 0
         THEN ProcessFrom(st, i + 1, move_indices, size)
         ELSE ProcessFrom(ScanBack(st, pos, i - size, move_indices, size),
                          i + 1, move_indices, size)

ProcessMove(b, direction, size) ==
    ProcessFrom([board |-> b, score |-> 0, merged |-> {}, twice |-> FALSE,
                 made |-> <<>>],
                0, Directions(size)[direction], size)

---------------------------------------------------------------------------
(* GameBoard._add_random_tile: every board it can leave.  With no empty    *)
(* cell it returns False and leaves the board as it is.                    *)

EmptyCells(b) == {i \in 0..(Len(b) - 1) : At(b, i) = 0}

SpawnValues == {2, 4}

\* a faulty variant of AddRandomTile: the position is chosen among all cells
AddRandomTile_AnyCell(b) ==
    IF EmptyCells(b) = {} THEN {b}
    ELSE {Put(b, position, v) : position \in 0..(Len(b) - 1), v \in SpawnValues}

AddRandomTile(b) ==
    IF EmptyCells(b) = {} THEN {b}
    ELSE {Put(b, position, v) : position \in EmptyCells(b), v \in SpawnValues}

---------------------------------------------------------------------------
(* GameLogic.make_move: every outcome it can have, as                      *)
(* [board, score, move_made, slid]; slid is the board _process_move left,  *)
(* before the spawn.                                                       *)

\* a faulty variant of SpawnAfter: a tile is added whether or not the board changed
SpawnAfter_Always(slid, move_made) == AddRandomTile(slid)

\* a faulty variant of SpawnAfter: no tile is ever added
SpawnAfter_Never(slid, move_made) == {slid}

SpawnAfter(slid, move_made) ==
    IF move_made THEN AddRandomTile(slid) ELSE {slid}

LogicMakeMove(b, direction, size) ==
    IF direction \notin Keys
    THEN {[board |-> b, score |-> 0, move_made |-> FALSE, slid |-> b]}
    ELSE LET done == ProcessMove(b, direction, size)
             move_made == done.board # b
         IN {[board |-> nb, score |-> done.score, move_made |-> move_made,
              slid |-> done.board] : nb \in SpawnAfter(done.board, move_made)}

---------------------------------------------------------------------------
(* SpecMove: the move engine on one input                                  *)

\* the grids of side size that hold at most MaxTiles tiles
InputGrids(size) ==
    UNION {{[i \in 1..(size * size) |-> IF i \in cells THEN f[i] ELSE 0] :
              f \in [cells -> TileValues]} :
           cells \in {c \in SUBSET (1..(size * size)) : Cardinality(c) <= MaxTiles}}

NoResult == [board |-> <<>>, score |-> 0, merged |-> {}, twice |-> FALSE,
             made |-> <<>>,
             move_made |-> FALSE, slid |-> <<>>]

idleSession ==
    /\ board = <<>> /\ score = 0 /\ best_score = 0 /\ state = "start_screen"
    /\ current_player = "None" /\ stuck_counter = 0

idleHistory == board_history = <<>> /\ score_history = <<>>

idleCall ==
    op = "none" /\ ret = "none" /\ gain = 0 /\ before_move = <<>> /\ moves = 0

idlePush == arg = <<>> /\ pushed = <<>>

idleMove ==
    /\ t_size = 0 /\ t_board = <<>> /\ t_dir = "none" /\ t_pc = "none"
    /\ t_res = NoResult

InitMove ==
    /\ idleSession /\ idleHistory /\ idleCall /\ idlePush
    /\ t_size \in 2..MaxSize
    /\ t_board \in InputGrids(t_size)
    /\ t_dir \in Keys \cup {UnknownKey}
    /\ t_pc = "init"
    /\ t_res = NoResult

\* GameLogic._process_move(t_dir) on a board holding t_board
CallProcessMove ==
    /\ t_pc = "init"
    /\ t_dir \in Keys
    /\ LET done == ProcessMove(t_board, t_dir, t_size) IN
         t_res' = [NoResult EXCEPT !.board = done.board, !.score = done.score,
                                   !.merged = done.merged, !.twice = done.twice,
                                   !.made = done.made,
                                   !.slid = done.board]
    /\ t_pc' = "_process_move"
    /\ UNCHANGED <<sessionVars, historyVars, callVars, arg, pushed, t_size, t_board, t_dir>>

\* GameLogic.make_move(t_dir) on a board holding t_board
CallLogicMakeMove ==
    /\ t_pc = "init"
    /\ \E out \in LogicMakeMove(t_board, t_dir, t_size) :
         t_res' = [NoResult EXCEPT !.board = out.board, !.score = out.score,
                                   !.move_made = out.move_made, !.slid = out.slid]
    /\ t_pc' = "make_move"
    /\ UNCHANGED <<sessionVars, historyVars, callVars, arg, pushed, t_size, t_board, t_dir>>

NextMove == CallProcessMove \/ CallLogicMakeMove

SpecMove == InitMove /\ [][NextMove]_vars

---------------------------------------------------------------------------
(* GameBoard.is_game_over *)

\* a faulty variant of HasEqualNeighbour: only the bottom neighbour is looked at
HasEqualNeighbour_BelowOnly(b, i, size) ==
    i \div size < size - 1 /\ At(b, i + size) = At(b, i)

\* a faulty variant of HasEqualNeighbour: only the right neighbour is looked at
HasEqualNeighbour_RightOnly(b, i, size) ==
    i % size < size - 1 /\ At(b, i + 1) = At(b, i)

\* the loop body (lines 113-119) for cell i: a right or bottom neighbour
\* holds the same value
HasEqualNeighbour(b, i, size) ==
    \/ (i % size < size - 1 /\ At(b, i + 1) = At(b, i))
    \/ (i \div size < size - 1 /\ At(b, i + size) = At(b, i))

\* a faulty variant of IsGameOver: a full board is game over, whatever it holds
IsGameOver_WhenFull(b, size) ==
    ~ \E i \in 0..(size * size - 1) : At(b, i) = 0

IsGameOver(b, size) ==
    IF \E i \in 0..(size * size - 1) : At(b, i) = 0 THEN FALSE
    ELSE ~ \E i \in 0..(size * size - 1) : HasEqualNeighbour(b, i, size)

---------------------------------------------------------------------------
(* SpecBoard: GameBoard.is_game_over on one board                          *)

\* GameConfig.BOARD_SIZE
BOARD_SIZE == 4
\* boards of side 2..MaxFullSize are given every grid over 0 and TileValues
MaxFullSize == 2
\* larger boards are given the checkerboard of 2 and 4 with at most
\* MaxChanged cells set to 0 or a value of TileValues
MaxChanged == 2

\* [2,4,2,4, 4,2,4,2, ...]
Checkerboard(size) ==
    [i \in 1..(size * size) |->
        IF (((i - 1) \div size) + ((i - 1) % size)) % 2 = 0 THEN 2 ELSE 4]

ChangedCheckerboards(size) ==
    UNION {{[i \in 1..(size * size) |->
                IF i \in cells THEN f[i] ELSE Checkerboard(size)[i]] :
              f \in [cells -> {0} \cup TileValues]} :
           cells \in {c \in SUBSET (1..(size * size)) : Cardinality(c) <= MaxChanged}}

BoardGrids(size) ==
    IF size <= MaxFullSize
    THEN [1..(size * size) -> {0} \cup TileValues]
    ELSE ChangedCheckerboards(size)

InitBoard ==
    /\ idleSession /\ idleHistory /\ idleCall /\ idlePush
    /\ t_size \in 2..BOARD_SIZE
    /\ t_board \in BoardGrids(t_size)
    /\ t_dir = "none"
    /\ t_pc = "init"
    /\ t_res = NoResult

\* is_game_over() on a board holding t_board
CallIsGameOver ==
    /\ t_pc = "init"
    /\ t_res' = [over |-> IsGameOver(t_board, t_size)]
    /\ t_pc' = "is_game_over"
    /\ UNCHANGED <<sessionVars, historyVars, callVars, arg, pushed, t_size, t_board, t_dir>>

NextBoard == CallIsGameOver

SpecBoard == InitBoard /\ [][NextBoard]_vars

\* a faulty variant of InitializeBoard: _add_random_tile is called once
InitializeBoard_OneTile(size) == AddRandomTile(Zeros(size * size))

\* GameBoard._initialize_board: every board it can leave
InitializeBoard(size) ==
    UNION {AddRandomTile(b) : b \in AddRandomTile(Zeros(size * size))}

---------------------------------------------------------------------------
(* AIPlayer                                                                *)
(*                                                                         *)
(* The GameBoard objects of one get_move call are the entries of a heap, a *)
(* sequence of grids: entry 1 is the board get_move was given (the live    *)
(* board of the session), board.copy() adds an entry.                      *)

\* GameBoard.get_max_value
MaxValue(b) ==
    IF b = <<>> THEN 0
    ELSE CHOOSE v \in {b[i] : i \in 1..Len(b)} : \A i \in 1..Len(b) : v >= b[i]

\* GameBoard.get_empty_cell_count
EmptyCellCount(b) == Cardinality(EmptyCells(b))

\* _calculate_bottom_right_bias, from cell i on
RECURSIVE BiasFrom(_, _, _)
BiasFrom(b, i, size) ==
    IF i >= size * size THEN 0
    ELSE (((i % size) + (i \div size)) ^ 3) * At(b, i) + BiasFrom(b, i + 1, size)

BottomRightBias(b, size) == BiasFrom(b, 0, size)

\* variety[value]
CountOf(b, value) == Cardinality({i \in 1..Len(b) : b[i] = value})

\* the second loop of _calculate_variety_score over the keys left in values
RECURSIVE VarietyOver(_, _, _)
VarietyOver(values, b, max_value) ==
    IF values = {} THEN 0
    ELSE LET value == CHOOSE v \in values : TRUE IN
         (IF value # 0 THEN (max_value \div value) * CountOf(b, value) ELSE 0)
         + VarietyOver(values \ {value}, b, max_value)

VarietyScore(b, max_value) ==
    VarietyOver({b[i] : i \in 1..Len(b)}, b, max_value)

\* a faulty variant of EvaluatePosition: the game-over penalty has lost its sign
EvaluatePosition_NoSign(b, s, size) ==
    IF IsGameOver(b, size) THEN s ^ 4
    ELSE LET empty_cells == EmptyCellCount(b)
             max_value == MaxValue(b)
         IN empty_cells * empty_cells * max_value * 1024
            + BottomRightBias(b, size) * 4
            + max_value * s
            + VarietyScore(b, max_value)

\* _evaluate_position(board, score)
EvaluatePosition(b, s, size) ==
    IF IsGameOver(b, size) THEN -1 * (s ^ 4)
    ELSE LET empty_cells == EmptyCellCount(b)
             max_value == MaxValue(b)
         IN empty_cells * empty_cells * max_value * 1024
            + BottomRightBias(b, size) * 4
            + max_value * s
            + VarietyScore(b, max_value)

\* a faulty variant of BoardCopy: the copy is the board itself
BoardCopy_SameObject(heap, ref) == [heap |-> heap, ref |-> ref]

\* GameBoard.copy of the object ref: the heap it leaves and the new object
BoardCopy(heap, ref) == [heap |-> Append(heap, heap[ref]), ref |-> Len(heap) + 1]

\* a faulty variant of Skipped: no direction is skipped
Skipped_Never(move_made) == FALSE

\* if not move_made: continue (lines 311-312)
Skipped(move_made) == ~move_made

\* a faulty variant of Better: best_score starts at 0
Better_ThanZero(heuristic_value, best) ==
    heuristic_value > (IF best = <<>> THEN 0 ELSE best[1])

\* best_score of _get_best_move is <<>> for float('-inf') and <<v>> for v:
\* heuristic_value > best_score (line 318)
Better(heuristic_value, best) ==
    best = <<>> \/ heuristic_value > best[1]

NoSims == [k \in Keys |-> "none"]

\* one iteration of the loop of _get_best_move (lines 303-320), from the
\* loop state st = [heap, best_score, best_move, sims]: every loop state it
\* can leave (make_move on the copy spawns a tile at random).  sims notes
\* what the iteration saw: "skipped", or the simulated position being "over"
\* or "open".  The copy is dropped from the heap when the iteration ends.
TryDirection(st, direction, s, size) ==
    LET test_board == BoardCopy(st.heap, 1) IN
    {LET heap_after == [test_board.heap EXCEPT ![test_board.ref] = out.board]
         live == <<heap_after[1]>>
         total_score == s + out.score
         heuristic_value == EvaluatePosition(out.board, total_score, size)
     IN IF Skipped(out.move_made)
        THEN [st EXCEPT !.heap = live, !.sims[direction] = "skipped"]
        ELSE [heap |-> live,
              best_score |-> IF Better(heuristic_value, st.best_score)
                             THEN <<heuristic_value>> ELSE st.best_score,
              best_move |-> IF Better(heuristic_value, st.best_score)
                            THEN direction ELSE st.best_move,
              sims |-> [st.sims EXCEPT ![direction] =
                           IF IsGameOver(out.board, size) THEN "over" ELSE "open"]]
     : out \in LogicMakeMove(test_board.heap[test_board.ref], direction, size)}

\* for direction in ['w', 'a', 's', 'd']
SearchOrder == <<"w", "a", "s", "d">>

RECURSIVE SearchFrom(_, _, _, _)
SearchFrom(states, i, s, size) ==
    IF i > Len(SearchOrder) THEN states
    ELSE SearchFrom(UNION {TryDirection(st, SearchOrder[i], s, size) : st \in states},
                    i + 1, s, size)

\* _get_best_move(board, score): every loop state it can end in
GetBestMove(b, s, size) ==
    SearchFrom({[heap |-> <<b>>, best_score |-> <<>>, best_move |-> "w",
                 sims |-> NoSims]}, 1, s, size)

\* the stuck_counter thresholds of get_move
STUCK_ANY == 15
STUCK_NOT_UP == 5

\* get_move(board, score) with self.stuck_counter = stuck: every outcome, as
\* [move, live, sims]; move is what it returns, live the grid of the board
\* it was given when it returns.  _get_best_move raises nothing, so the
\* except branch is never taken.
GetMove(b, s, stuck, size) ==
    IF stuck > STUCK_ANY
    THEN {[move |-> k, live |-> b, sims |-> NoSims] : k \in {"w", "a", "s", "d"}}
    ELSE IF stuck > STUCK_NOT_UP
    THEN {[move |-> k, live |-> b, sims |-> NoSims] : k \in {"a", "s", "d"}}
    ELSE {[move |-> st.best_move, live |-> st.heap[1], sims |-> st.sims] :
            st \in GetBestMove(b, s, size)}

---------------------------------------------------------------------------
(* SpecAI: one get_move(self.board, self.score) call on the automatic      *)
(* player of a session, as the loop of Game2048.run makes it while the     *)
(* state is Playing (lines 579-581) and as any other caller can make it on *)
(* a board that is game over.                                              *)

AIScores == {0, 16}

StuckCounters == {0, STUCK_NOT_UP, STUCK_NOT_UP + 1, STUCK_ANY + 1}

\* the board of a game holds at least two tiles
AIGrids(size) ==
    {b \in BoardGrids(size) : Cardinality({i \in 1..Len(b) : b[i] # 0}) >= 2}

InitAI ==
    /\ t_size \in 2..BOARD_SIZE
    /\ t_board \in AIGrids(t_size)
    /\ board = t_board
    /\ score \in AIScores
    /\ best_score = score
    /\ state = IF IsGameOver(board, t_size) THEN "game_over" ELSE "playing"
    /\ current_player = "AI"
    /\ stuck_counter \in StuckCounters
    /\ board_history = <<board>> /\ score_history = <<score>>
    /\ op = "none" /\ ret = "none" /\ gain = 0 /\ before_move = <<>> /\ moves = 0
    /\ idlePush
    /\ t_dir = "none"
    /\ t_pc = "init"
    /\ t_res = NoResult

\* self.current_player.get_move(self.board, self.score)
CallGetMove ==
    /\ t_pc = "init"
    /\ current_player = "AI"
    /\ \E out \in GetMove(board, score, stuck_counter, t_size) :
         /\ board' = out.live
         /\ ret' = out.move
         /\ t_res' = [sims |-> out.sims]
    /\ op' = "get_move"
    /\ t_pc' = "get_move"
    /\ UNCHANGED <<score, best_score, state, current_player, stuck_counter>>
    /\ UNCHANGED <<historyVars, gain, before_move, moves, arg, pushed>>
    /\ UNCHANGED <<t_size, t_board, t_dir>>

NextAI == CallGetMove

SpecAI == InitAI /\ [][NextAI]_vars

---------------------------------------------------------------------------
(* GameHistory, as [boards, scores] *)

\* GameConfig.MAX_HISTORY
MAX_HISTORY == 5

NewHistory == [boards |-> <<>>, scores |-> <<>>]

Last(list) == list[Len(list)]
Front(list) == SubSeq(list, 1, Len(list) - 1)

\* a faulty variant of LimitSize: only board_history is popped
LimitSize_BoardsOnly(h, max_history) ==
    IF Len(h.boards) > max_history + 1
    THEN [boards |-> Tail(h.boards), scores |-> h.scores]
    ELSE h

\* the size limit of add_state (lines 384-386)
LimitSize(h, max_history) ==
    IF Len(h.boards) > max_history + 1
    THEN [boards |-> Tail(h.boards), scores |-> Tail(h.scores)]
    ELSE h

AddState(h, b, s, max_history) ==
    IF h.boards = <<>> \/ Last(h.boards) # b
    THEN LimitSize([boards |-> Append(h.boards, b), scores |-> Append(h.scores, s)],
                   max_history)
    ELSE h

CanUndo(h) == Len(h.boards) > 1

\* a faulty variant of Undo: each list is popped once, and that pop is returned
Undo_PopOnce(h) ==
    [hist  |-> [boards |-> Front(h.boards), scores |-> Front(h.scores)],
     board |-> Last(h.boards),
     score |-> Last(h.scores)]

\* undo, where can_undo() holds: the history it leaves and the pair it
\* returns.  Each list is popped twice; the second pop is returned.
Undo(h) ==
    LET b1 == Front(h.boards)
        s1 == Front(h.scores)
    IN [hist  |-> [boards |-> Front(b1), scores |-> Front(s1)],
        board |-> Last(b1),
        score |-> Last(s1)]

\* a faulty variant of UndoCall: the lists are popped before can_undo() is
\* looked at
UndoCall_PopFirst(h) ==
    IF ~CanUndo(h)
    THEN [raised |-> TRUE,
          hist   |-> [boards |-> Front(h.boards), scores |-> Front(h.scores)],
          board  |-> <<>>, score |-> 0]
    ELSE LET u == Undo(h) IN
         [raised |-> FALSE, hist |-> u.hist, board |-> u.board, score |-> u.score]

\* GameHistory.undo in any history: raised says that it raised ValueError
\* (lines 394-395), hist is the history it leaves
UndoCall(h) ==
    IF ~CanUndo(h)
    THEN [raised |-> TRUE, hist |-> h, board |-> <<>>, score |-> 0]
    ELSE LET u == Undo(h) IN
         [raised |-> FALSE, hist |-> u.hist, board |-> u.board, score |-> u.score]

---------------------------------------------------------------------------
(* Spec: a Game2048 session.  Every operation may be called in every       *)
(* state, with any direction key.                                          *)

\* GameConfig.BOARD_SIZE of the session that is explored
BoardSize == 2
\* a game is explored up to MaxMoves make_move calls made while Playing
MaxMoves == 2
\* what _load_best_score can return: 0 (no file, or a corrupt one) or the
\* number in the file, which _save_best_score wrote: a best score
LoadedBestScores == {0, 8}

history == [boards |-> board_history, scores |-> score_history]

SetHistory(h) == board_history' = h.boards /\ score_history' = h.scores

\* Game2048.__init__
Init ==
    /\ board \in InitializeBoard(BoardSize)
    /\ score = 0
    /\ best_score \in LoadedBestScores
    /\ state = "start_screen"
    /\ current_player = "None"
    /\ stuck_counter = 0
    /\ idleHistory /\ idleCall /\ idleMove /\ idlePush

\* the body of start_game(is_human)
StartGameBody(is_human) ==
    /\ current_player' = IF is_human THEN "Human" ELSE "AI"
    /\ state' = "playing"
    /\ score' = 0
    /\ board' \in InitializeBoard(BoardSize)
    /\ SetHistory(AddState(NewHistory, board', 0, MAX_HISTORY))
    /\ stuck_counter' = IF is_human THEN stuck_counter ELSE 0
    /\ UNCHANGED best_score
    /\ ret' = "None" /\ gain' = 0 /\ before_move' = <<>> /\ moves' = 0

StartGame(is_human) ==
    /\ StartGameBody(is_human)
    /\ op' = "start_game"
    /\ UNCHANGED <<arg, pushed, moveVars>>

ResetGame ==
    /\ StartGameBody(current_player = "Human")
    /\ op' = "reset_game"
    /\ UNCHANGED <<arg, pushed, moveVars>>

\* a faulty variant of UpdateBest: the comparison is the wrong way round
UpdateBest_Reversed(best, s) == IF s < best THEN s ELSE best

\* best_score after a move that changed the board (lines 508-510)
UpdateBest(best, s) == IF s > best THEN s ELSE best

\* a faulty variant of ScoreAfterMove: = in place of +=
ScoreAfterMove_Assign(s, score_gained) == score_gained

\* self.score += score_gained (line 501)
ScoreAfterMove(s, score_gained) == s + score_gained

\* make_move where the state is Playing, GameLogic.make_move having
\* returned out
MakeMoveOutcome(out) ==
    IF out.move_made
    THEN /\ score' = ScoreAfterMove(score, out.score)
         /\ stuck_counter' = IF current_player = "AI" THEN 0 ELSE stuck_counter
         /\ best_score' = UpdateBest(best_score, score')
         /\ state' = IF IsGameOver(out.board, BoardSize) THEN "game_over" ELSE state
         /\ before_move' = <<board, score>>
    ELSE /\ stuck_counter' = IF current_player = "AI" THEN stuck_counter + 1
                             ELSE stuck_counter
         /\ UNCHANGED <<score, best_score, state, before_move>>

\* make_move(direction) where the state is Playing, the board holding the
\* grid b when it is called and the History keeping max_history + 1 entries
\* (lines 494-520); the caller either reads the returned value or calls
\* make_move as a statement, and is then left with nothing
MakeMovePlaying(b, direction, max_history, read) ==
    /\ SetHistory(AddState(history, b, score, max_history))
    /\ \E out \in LogicMakeMove(b, direction, BoardSize) :
         /\ board' = out.board
         /\ gain' = out.score
         /\ MakeMoveOutcome(out)
         /\ ret' = IF read THEN out.move_made ELSE "None"
    /\ UNCHANGED current_player

MakeMove(direction) ==
    /\ op' = "make_move"
    /\ IF state # "playing"
       THEN /\ ret' = FALSE
            /\ gain' = 0
            /\ UNCHANGED <<sessionVars, historyVars, before_move, moves>>
       ELSE /\ moves < MaxMoves
            /\ moves' = moves + 1
            /\ MakeMovePlaying(board, direction, MAX_HISTORY, TRUE)
    /\ UNCHANGED <<arg, pushed, moveVars>>

UndoMove ==
    /\ op' = "undo_move"
    /\ IF ~CanUndo(history) \/ state # "playing"
       THEN /\ ret' = FALSE
            /\ UNCHANGED <<board, score, historyVars>>
       ELSE LET u == UndoCall(history) IN
            /\ SetHistory(u.hist)
            /\ IF u.raised
               THEN ret' = FALSE /\ UNCHANGED <<board, score>>
               ELSE board' = u.board /\ score' = u.score /\ ret' = TRUE
    /\ UNCHANGED <<best_score, state, current_player, stuck_counter>>
    /\ UNCHANGED <<gain, before_move, moves, arg, pushed, moveVars>>

ClearBestScore ==
    /\ op' = "clear_best_score"
    /\ best_score' = 0
    /\ ret' = "None"
    /\ UNCHANGED <<board, score, state, current_player, stuck_counter>>
    /\ UNCHANGED <<historyVars, gain, before_move, moves, arg, pushed, moveVars>>

\* _handle_game_over_click on the play-again button
PlayAgain ==
    /\ state = "game_over"
    /\ op' = "play_again"
    /\ state' = "start_screen"
    /\ current_player' = "None"
    /\ ret' = "None"
    /\ UNCHANGED <<board, score, best_score, stuck_counter>>
    /\ UNCHANGED <<historyVars, gain, before_move, moves, arg, pushed, moveVars>>

Next ==
    \/ \E is_human \in BOOLEAN : StartGame(is_human)
    \/ \E direction \in Keys \cup {UnknownKey} : MakeMove(direction)
    \/ UndoMove
    \/ ResetGame
    \/ ClearBestScore
    \/ PlayAgain

Spec == Init /\ [][Next]_vars

---------------------------------------------------------------------------
(* SpecLoop: the loop of Game2048.run with the automatic player.  While    *)
(* the automatic player plays, key presses and clicks on the game buttons  *)
(* are ignored (lines 592 and 616), so that the loop's own move (lines     *)
(* 579-582) is all that acts on a running game.  One game is followed: a   *)
(* click starts it from the start screen, and the loop plays it.           *)

\* GameConfig.MAX_HISTORY of the session that is followed
LoopHistory == 2

\* the click on the computer button of the start screen
ClickComputer ==
    /\ state = "start_screen"
    /\ StartGame(FALSE)

\* the condition under which a pass of the loop makes the automatic
\* player's move (line 580)
LoopCondition == state = "playing" /\ current_player = "AI"

\* ai_move = self.current_player.get_move(self.board, self.score)
\* self.make_move(ai_move)
\* (a statement of run: what make_move returns is dropped)
AIMove ==
    /\ LoopCondition
    /\ \E found \in GetMove(board, score, stuck_counter, BoardSize) :
         MakeMovePlaying(found.live, found.move, LoopHistory, FALSE)
    /\ op' = "run"
    /\ UNCHANGED <<moves, arg, pushed, moveVars>>

NextLoop ==
    \/ ClickComputer
    \/ AIMove

SpecLoop == Init /\ [][NextLoop]_vars

\* The loop runs as long as the window is open, and each pass makes the
\* automatic player's move while LoopCondition holds.  This is weak fairness
\* of AIMove, WF_sessionVars(AIMove), written out: get_move and make_move
\* return for every board, so that AIMove is enabled wherever LoopCondition
\* holds, and a step that SpecLoop takes there is a step of AIMove (one that
\* changes the board or, failing that, the stuck counter).
LoopFairness ==
    \/ []<>(~LoopCondition)
    \/ []<><<LoopCondition /\ op' = "run">>_sessionVars

SpecLoopFair == SpecLoop /\ LoopFairness

---------------------------------------------------------------------------
(* SpecHist: one GameHistory(MAX_HISTORY) under any add_state and undo     *)
(* calls, and its replacement by a new one (as start_game does).           *)

\* add_state is given one of NumHistGrids grids
NumHistGrids == 3

\* distinct grids of a board of side 2: grid k holds one tile
HistGrid(k) == [i \in 1..4 |-> IF i = 1 + (k % 4) THEN 2^(1 + (k \div 4)) ELSE 0]

HistGrids == {HistGrid(k) : k \in 0..(NumHistGrids - 1)}

HistScores == {0, 4}

InitHist ==
    /\ idleSession /\ idleMove
    /\ board_history = <<>> /\ score_history = <<>>
    /\ op = "__init__" /\ ret = "None" /\ gain = 0 /\ before_move = <<>> /\ moves = 0
    /\ arg = <<>> /\ pushed = <<>>

HistAddState(b, s) ==
    /\ SetHistory(AddState(history, b, s, MAX_HISTORY))
    /\ op' = "add_state"
    /\ arg' = <<b, s, Len(board_history)>>
    /\ ret' = "None"
    /\ UNCHANGED <<sessionVars, gain, before_move, moves, pushed, moveVars>>

\* undo(): it raises ValueError where can_undo() is false
HistUndo ==
    /\ op' = "undo"
    /\ LET u == UndoCall(history) IN
         /\ SetHistory(u.hist)
         /\ ret' = IF u.raised THEN "ValueError" ELSE <<u.board, u.score>>
    /\ UNCHANGED <<sessionVars, gain, before_move, moves, arg, pushed, moveVars>>

HistNew ==
    /\ SetHistory(NewHistory)
    /\ op' = "__init__"
    /\ ret' = "None"
    /\ UNCHANGED <<sessionVars, gain, before_move, moves, arg, pushed, moveVars>>

NextHist ==
    \/ \E b \in HistGrids, s \in HistScores : HistAddState(b, s)
    \/ HistUndo
    \/ HistNew

SpecHist == InitHist /\ [][NextHist]_vars

---------------------------------------------------------------------------
(* SpecPushUndo: an empty GameHistory(MAX_HISTORY), then up to             *)
(* MAX_HISTORY + 1 add_state calls with pairwise distinct grids, then one  *)
(* undo.                                                                   *)

PushGrids == {HistGrid(k) : k \in 0..MAX_HISTORY}

PushedGrids == {pushed[i][1] : i \in 1..Len(pushed)}

PushDistinct(b, s) ==
    /\ op # "undo"
    /\ Len(pushed) < MAX_HISTORY + 1
    /\ b \notin PushedGrids
    /\ SetHistory(AddState(history, b, s, MAX_HISTORY))
    /\ op' = "add_state"
    /\ arg' = <<b, s, Len(board_history)>>
    /\ pushed' = Append(pushed, <<b, s>>)
    /\ ret' = "None"
    /\ UNCHANGED <<sessionVars, gain, before_move, moves, moveVars>>

UndoOnce ==
    /\ op # "undo"
    /\ HistUndo

NextPushUndo ==
    \/ \E b \in PushGrids, s \in HistScores : PushDistinct(b, s)
    \/ UndoOnce

SpecPushUndo == InitHist /\ [][NextPushUndo]_vars

---------------------------------------------------------------------------
(* The claims *)

StartOps == {"start_game", "reset_game"}

\* C1 (as claimed; Spec): when undo_move returns True, the live grid and
\* score are the ones the session had just before the most recent make_move
\* that changed the board.
C1_UndoRestoresBeforeLastMove ==
    (op = "undo_move" /\ ret = TRUE) => <<board, score>> = before_move

ValuesOf(b) == {b[i] : i \in 1..Len(b)} \ {0}

\* C2 (as claimed; SpecMove): in one _process_move no tile made by a merge
\* is merged again, and every tile afterwards holds a value that was on the
\* board before, or twice such a value.
C2_MergeAtMostOnce ==
    t_pc = "_process_move" =>
        /\ ~t_res.twice
        /\ \A v \in ValuesOf(t_res.board) :
              v \in ValuesOf(t_board) \/ \E u \in ValuesOf(t_board) : v = 2 * u

ProcessedExample(b, direction) ==
    t_pc = "_process_move" /\ t_size = 2 /\ t_board = b /\ t_dir = direction

\* C3 (amended; SpecMove): on the size-2 grid [2,2,0,0], _process_move with
\* 'a' leaves [4,0,0,0] and with 'd' leaves [0,4,0,0], each with score 4.
C3_LeftRightExample ==
    /\ ProcessedExample(<<2, 2, 0, 0>>, "a") =>
          t_res.board = <<4, 0, 0, 0>> /\ t_res.score = 4
    /\ ProcessedExample(<<2, 2, 0, 0>>, "d") =>
          t_res.board = <<0, 4, 0, 0>> /\ t_res.score = 4

\* C3 (as claimed): ... and with 'd' leaves [0,0,0,4], with score 4.
C3_Original ==
    /\ ProcessedExample(<<2, 2, 0, 0>>, "a") =>
          t_res.board = <<4, 0, 0, 0>> /\ t_res.score = 4
    /\ ProcessedExample(<<2, 2, 0, 0>>, "d") =>
          t_res.board = <<0, 0, 0, 4>> /\ t_res.score = 4

C3_Witness == ProcessedExample(<<2, 2, 0, 0>>, "d") /\ t_res.score = 4

\* C4 (amended; SpecMove): on the size-2 grid [2,0,2,4], _process_move with
\* 'w' merges column 0 and slides the 4 of row 1, column 1 up to row 0:
\* it leaves [4,4,0,0], with score 4.
C4_UpExample ==
    ProcessedExample(<<2, 0, 2, 4>>, "w") =>
        t_res.board = <<4, 4, 0, 0>> /\ t_res.score = 4

\* C4 (as claimed): ... it leaves [4,0,0,4], the 4 of row 1, column 1 where
\* it was, with score 4.
C4_Original ==
    ProcessedExample(<<2, 0, 2, 4>>, "w") =>
        t_res.board = <<4, 0, 0, 4>> /\ t_res.score = 4

C4_Witness == ProcessedExample(<<2, 0, 2, 4>>, "w") /\ t_res.merged = {0}

\* what one Session operation does to the score, as the claim has it
C5_OriginalStep ==
    IF op' \in StartOps THEN score' = 0
    ELSE /\ score' >= score
         /\ score' # score => (op' = "make_move" /\ ret' = TRUE /\ score' = score + gain')

\* C5 (as claimed; Spec): start_game sets the score to 0; every other
\* operation leaves it at least what it was, and changes it only by adding
\* the merge gain of a move.
C5_Original == [][C5_OriginalStep]_vars

C5_AmendedStep ==
    CASE op' \in StartOps -> score' = 0
      [] op' = "make_move" ->
            /\ score' >= score
            /\ score' = IF ret' = TRUE THEN score + gain' ELSE score
      [] op' = "undo_move" ->
            score' = IF ret' = TRUE THEN score_history[Len(score_history) - 1]
                     ELSE score
      [] OTHER -> score' = score

\* C5 (amended; Spec): start_game and reset_game set the score to 0;
\* make_move never lowers it and adds exactly the merge gain of a move that
\* changed the board; clear_best_score leaves it; an undo_move that returns
\* True sets it to the score stored with the restored History entry (which
\* can be lower).
C5_Amended == [][C5_AmendedStep]_vars

\* an undo has put the score below what it was before the undone move
C5_Witness ==
    op = "undo_move" /\ ret = TRUE /\ before_move # <<>> /\ score < before_move[2]

\* C6 (as claimed; Spec): best_score >= score in every reachable state.
C6_Original == best_score >= score

C6_AmendedStep ==
    /\ (op' \in StartOps \/ (op' = "make_move" /\ ret' = TRUE)) =>
          best_score' >= score'
    /\ (op' # "clear_best_score" /\ best_score >= score) => best_score' >= score'
    /\ op' = "clear_best_score" => (best_score' = 0 /\ score' = score)

\* C6 (amended; Spec): best_score >= score holds after start_game,
\* reset_game and every make_move that changed the board, and every
\* operation but clear_best_score keeps it; clear_best_score sets
\* best_score to 0 and leaves the score.
C6_Amended == [][C6_AmendedStep]_vars

C6_Witness == op = "clear_best_score" /\ best_score < score

SpawnedCells == {i \in 1..Len(t_res.board) : t_res.board[i] # t_res.slid[i]}

\* C7 (SpecMove): when GameLogic.make_move reports a change, the board is
\* the slide/merge result with exactly one of its empty cells set to 2 or 4;
\* when it reports none, the board is as it was.
C7_SpawnExactlyOne ==
    t_pc = "make_move" =>
        /\ t_res.move_made <=> (t_res.slid # t_board)
        /\ t_dir \in Keys => t_res.slid = ProcessMove(t_board, t_dir, t_size).board
        /\ IF t_res.move_made
           THEN /\ Cardinality(SpawnedCells) = 1
                /\ \A i \in SpawnedCells :
                      t_res.slid[i] = 0 /\ t_res.board[i] \in {2, 4}
           ELSE t_res.board = t_board

\* a changed move whose slide/merge result had one empty cell left
C7_Witness ==
    /\ t_pc = "make_move" /\ t_res.move_made
    /\ Cardinality(EmptyCells(t_res.slid)) = 1
    /\ EmptyCells(t_res.board) = {}

C8_Step ==
    (op' = "make_move" /\ ret' = FALSE) =>
        /\ board' = board
        /\ score' = score
        /\ best_score' = best_score
        /\ state' = state

\* C8 (Spec): a make_move that returns False leaves the grid, the score,
\* the best score and the game state as they were.
C8_FalseMoveChangesNothing == [][C8_Step]_vars

\* make_move returned False while Playing, with tiles that could move
C8_Witness ==
    /\ op = "make_move" /\ ret = FALSE /\ state = "playing"
    /\ \E k \in Keys : ProcessMove(board, k, BoardSize).board # board

C9_Stored ==
    /\ Len(board_history) <= MAX_HISTORY + 1
    /\ Len(score_history) = Len(board_history)
    /\ \A i \in 1..(Len(board_history) - 1) : board_history[i] # board_history[i + 1]

C9_Step ==
    op' = "add_state" =>
        IF board_history # <<>> /\ arg'[1] = Last(board_history)
        THEN UNCHANGED historyVars
        ELSE IF Len(board_history) = MAX_HISTORY + 1
        THEN /\ board_history' = Append(Tail(board_history), arg'[1])
             /\ score_history' = Append(Tail(score_history), arg'[2])
        ELSE /\ board_history' = Append(board_history, arg'[1])
             /\ score_history' = Append(score_history, arg'[2])

\* C9 (SpecHist): the History holds at most max_history + 1 entries, its two
\* lists have the same length and no two consecutive grids are equal; a push
\* of the grid stored last is a no-op, and a push into a full History evicts
\* the oldest entry.
C9_History == []C9_Stored /\ [][C9_Step]_vars

\* a push into a full History has just evicted an entry
C9_Witness ==
    /\ op = "add_state" /\ arg[3] = MAX_HISTORY + 1
    /\ Len(board_history) = MAX_HISTORY + 1
    /\ <<Last(board_history), Last(score_history)>> = <<arg[1], arg[2]>>

\* C10 (SpecPushUndo): after k pushes of states with distinct grids into an
\* empty History, 2 <= k <= max_history + 1, undo returns the state pushed
\* second to last and leaves the first k - 2 states stored.
C10_UndoAfterPushes ==
    (op = "undo" /\ Len(pushed) >= 2 /\ Len(pushed) <= MAX_HISTORY + 1) =>
        LET k == Len(pushed) IN
        /\ ret = pushed[k - 1]
        /\ Len(board_history) = k - 2
        /\ Len(score_history) = k - 2
        /\ \A i \in 1..(k - 2) :
              board_history[i] = pushed[i][1] /\ score_history[i] = pushed[i][2]

C10_Witness ==
    /\ op = "undo" /\ Len(pushed) = MAX_HISTORY + 1
    /\ ret = pushed[MAX_HISTORY]
    /\ Len(board_history) = MAX_HISTORY - 1

C11_Step ==
    (op' = "undo_move" /\ (Len(board_history) < 2 \/ state # "playing")) =>
        /\ ret' = FALSE
        /\ UNCHANGED <<board, score, board_history, score_history, state>>

C11_HistoryUndoRaises ==
    Len(board_history) < 2 =>
        UndoCall(history).raised /\ UndoCall(history).hist = history

\* C11 (Spec): with fewer than 2 stored entries GameHistory.undo raises and
\* removes nothing, and undo_move returns False and leaves the grid, the
\* score, the History and the game state as they were; undo_move does the
\* same whenever the state is not Playing.
C11_UndoFailsCleanly == []C11_HistoryUndoRaises /\ [][C11_Step]_vars

\* undo_move has returned False in a running game whose History holds one
\* entry, after a move that changed the board
C11_Witness ==
    /\ op = "undo_move" /\ ret = FALSE /\ state = "playing"
    /\ Len(board_history) = 1 /\ before_move # <<>>

RECURSIVE IsPowerOfTwo(_)
IsPowerOfTwo(v) ==
    v >= 2 /\ (v = 2 \/ (v % 2 = 0 /\ IsPowerOfTwo(v \div 2)))

WellFormedGrid(b, size) ==
    /\ Len(b) = size * size
    /\ \A i \in 1..Len(b) : b[i] = 0 \/ IsPowerOfTwo(b[i])

\* C12 (Spec): in every reachable state of a session the live grid has
\* size * size cells, each 0 or a power of two >= 2, and so has every grid
\* stored in the History.
C12_GridsWellFormed ==
    /\ WellFormedGrid(board, BoardSize)
    /\ \A i \in 1..Len(board_history) : WellFormedGrid(board_history[i], BoardSize)

\* a merge has made an 8 on the live grid while the History holds two grids
C12_Witness ==
    /\ op = "make_move" /\ ret = TRUE /\ gain = 8
    /\ \E i \in 1..Len(board) : board[i] = 8
    /\ Len(board_history) = 2

Reverse(list) == [i \in 1..Len(list) |-> list[Len(list) + 1 - i]]

\* the <<row, column>> step from a cell toward the edge where the tiles of
\* a move gather
TowardEdge(direction) ==
    CASE direction = "w" -> <<-1, 0>>
      [] direction = "s" -> <<1, 0>>
      [] direction = "a" -> <<0, -1>>
      [] direction = "d" -> <<0, 1>>

C20_Table(direction, size) ==
    LET T == Directions(size)[direction]
        n == size * size
        Row(cell) == cell \div size
        Col(cell) == cell % size
        step == TowardEdge(direction)
    IN /\ Len(T) = n
       /\ {At(T, p) : p \in 0..(n - 1)} = 0..(n - 1)
       /\ \A p \in size..(n - 1) :
             /\ Row(At(T, p - size)) = Row(At(T, p)) + step[1]
             /\ Col(At(T, p - size)) = Col(At(T, p)) + step[2]
       /\ \A p \in 0..(n - 1) : \A k \in 1..size :
             p - k * size >= 0 =>
                IF direction \in {"w", "s"}
                THEN Col(At(T, p - k * size)) = Col(At(T, p))
                ELSE Row(At(T, p - k * size)) = Row(At(T, p))

\* C20 (SpecMove): every traversal order is a permutation of the cells, Down
\* is Up reversed, the entry size places before a cell's is its neighbour one
\* step toward the edge where the tiles gather (same column for Up and Down,
\* same row for Left and Right), and so every cell the backward scan of a
\* tile looks at is in the tile's own column or row.
C20_TraversalOrders ==
    /\ \A direction \in Keys : C20_Table(direction, t_size)
    /\ Directions(t_size)["s"] = Reverse(Directions(t_size)["w"])

\* on a board of side 3 a tile has been moved right across two empty cells
C20_Witness ==
    /\ t_pc = "_process_move" /\ t_size = 3 /\ t_dir = "d"
    /\ t_board[4] = 2 /\ t_board[5] = 0 /\ t_board[6] = 0
    /\ t_res.board[6] = 2 /\ t_res.board[4] = 0

\* the grid has no empty cell, and no two cells next to each other in a row
\* or in a column hold the same value
NoMoveLeft(b, size) ==
    LET cell(r, c) == b[r * size + c + 1] IN
    /\ \A r, c \in 0..(size - 1) : cell(r, c) # 0
    /\ \A r \in 0..(size - 1), c \in 0..(size - 2) : cell(r, c) # cell(r, c + 1)
    /\ \A r \in 0..(size - 2), c \in 0..(size - 1) : cell(r, c) # cell(r + 1, c)

ZeroedAt(b, i) == [b EXCEPT ![i] = 0]

\* C13 (SpecBoard): is_game_over() is true iff the grid has no empty cell
\* and no two horizontally or vertically adjacent cells hold equal values;
\* it is true for [2,4,2,4, 4,2,4,2, 2,4,2,4, 4,2,4,2] and false for that
\* grid with any one cell zeroed.
C13_IsGameOver ==
    t_pc = "is_game_over" =>
        /\ t_res.over <=> NoMoveLeft(t_board, t_size)
        /\ t_board = <<2, 4, 2, 4, 4, 2, 4, 2, 2, 4, 2, 4, 4, 2, 4, 2>> => t_res.over
        /\ \A i \in 1..16 :
              t_board = ZeroedAt(<<2, 4, 2, 4, 4, 2, 4, 2, 2, 4, 2, 4, 4, 2, 4, 2>>, i)
                 => ~t_res.over

\* is_game_over() has returned True on the checkerboard of side 4
C13_Witness ==
    /\ t_pc = "is_game_over" /\ t_res.over
    /\ t_board = <<2, 4, 2, 4, 4, 2, 4, 2, 2, 4, 2, 4, 4, 2, 4, 2>>

\* the directions whose slide/merge changes the grid
LegalDirections(b, size) == {k \in Keys : ProcessMove(b, k, size).board # b}

\* get_move has returned from a call made with a stuck counter of at most 5
Searched == t_pc = "get_move" /\ stuck_counter <= STUCK_NOT_UP

\* C14 (SpecAI): where exactly one direction changes the grid, get_move
\* with a stuck counter of at most 5 returns that direction.
C14_OnlyLegalMove ==
    (Searched /\ Cardinality(LegalDirections(t_board, t_size)) = 1) =>
        ret \in LegalDirections(t_board, t_size)

\* Right was the one legal direction, and it was returned
C14_Witness ==
    Searched /\ LegalDirections(t_board, t_size) = {"d"} /\ ret = "d"

\* C15 (as claimed; SpecAI): with a stuck counter of at most 5 and no
\* direction that changes the board, each of the four directions is a
\* possible return value of get_move.
C15_RandomFallback ==
    (Searched /\ LegalDirections(t_board, t_size) = {}) =>
        {out.move : out \in GetMove(t_board, score, stuck_counter, t_size)} = Keys

\* the value get_move would rank a direction by if the position were the
\* one the slide/merge leaves
SlideValue(b, s, direction, size) ==
    LET done == ProcessMove(b, direction, size) IN
    EvaluatePosition(done.board, s + done.score, size)

\* the first direction of the search order that attains the greatest
\* SlideValue among the legal ones
FirstBestSlide(b, s, size) ==
    LET legal == LegalDirections(b, size)
        best(k) == \A j \in legal : SlideValue(b, s, k, size) >= SlideValue(b, s, j, size)
        first == CHOOSE i \in 1..Len(SearchOrder) :
                    /\ SearchOrder[i] \in legal /\ best(SearchOrder[i])
                    /\ \A j \in 1..(i - 1) :
                          ~(SearchOrder[j] \in legal /\ best(SearchOrder[j]))
    IN SearchOrder[first]

\* C17 (as claimed; SpecAI): with a stuck counter of at most 5 and a legal
\* direction, get_move returns one value for a (grid, score): the first
\* direction, in the order Up, Left, Down, Right, that attains the greatest
\* evaluation of the slide/merge result with score + score_gained among the
\* directions that change the grid.
C17_DeterministicBest ==
    (Searched /\ LegalDirections(t_board, t_size) # {}) =>
        /\ ret = FirstBestSlide(t_board, score, t_size)
        /\ Cardinality({out.move :
               out \in GetMove(t_board, score, stuck_counter, t_size)}) = 1

C18_Step ==
    op' = "get_move" =>
        UNCHANGED <<board, score, board_history, score_history, state, stuck_counter>>

\* C18 (SpecAI): a get_move call leaves the live grid, the session score,
\* the History, the game state and the stuck counter as they were.
C18_SearchLeavesLiveState == [][C18_Step]_vars

\* get_move has simulated a move in each of the four directions
C18_Witness ==
    /\ Searched /\ board = t_board
    /\ \A k \in Keys : t_res.sims[k] \in {"open", "over"}

\* the values get_move can give to the positions it can simulate from the
\* board b: those that are game over (over = TRUE) and the others
SimulatedValues(b, s, size, over) ==
    {EvaluatePosition(out.board, s + out.score, size) :
        out \in {o \in UNION {LogicMakeMove(b, k, size) : k \in Keys} :
                    o.move_made /\ IsGameOver(o.board, size) = over}}

\* C19 (SpecAI): in a get_move call with a stuck counter of at most 5, if
\* the simulated position of some legal direction is not game over, that of
\* the returned direction is not game over; every position that is not game
\* over is valued strictly above every position that is (the one above 0,
\* the other at most 0).
C19_AvoidsGameOver ==
    Searched =>
        /\ (\E k \in Keys : t_res.sims[k] = "open") => t_res.sims[ret] = "open"
        /\ \A lost \in SimulatedValues(t_board, score, t_size, TRUE) : lost <= 0
        /\ \A alive \in SimulatedValues(t_board, score, t_size, FALSE) : alive > 0

\* with score 0, a direction searched before the returned one led to game
\* over, and the returned one did not
C19_Witness ==
    /\ Searched /\ score = 0
    /\ t_res.sims["w"] = "over"
    /\ ret # "w" /\ t_res.sims[ret] = "open"

\* the cells of a lane that lie between the cell (r, c) and the edge where
\* the tiles of a move in this direction gather, as <<row, column>> pairs
TowardEdgeCells(r, c, direction, size) ==
    LET step == TowardEdge(direction) IN
    {<<r + k * step[1], c + k * step[2]>> : k \in 1..size}
        \cap ((0..(size - 1)) \X (0..(size - 1)))

\* no tile has an empty cell between it and that edge
Packed(b, direction, size) ==
    \A r, c \in 0..(size - 1) :
        b[r * size + c + 1] # 0 =>
            \A rc \in TowardEdgeCells(r, c, direction, size) :
                b[rc[1] * size + rc[2] + 1] # 0

\* no tile has an equal tile as its neighbour along the lane
NoEqualAlong(b, direction, size) ==
    LET step == TowardEdge(direction) IN
    \A r, c \in 0..(size - 1) :
        LET r2 == r + step[1]
            c2 == c + step[2]
        IN (r2 \in 0..(size - 1) /\ c2 \in 0..(size - 1) /\ b[r * size + c + 1] # 0)
              => b[r2 * size + c2 + 1] # b[r * size + c + 1]

\* C21 (SpecMove): after the slide/merge of a move every lane is packed
\* toward the edge of the direction; a grid that is packed toward it and has
\* no two equal neighbours along its lanes is left as it is, and make_move
\* reports no change.
C21_PackedAfterMove ==
    (t_pc \in {"_process_move", "make_move"} /\ t_dir \in Keys) =>
        /\ Packed(t_res.slid, t_dir, t_size)
        /\ (Packed(t_board, t_dir, t_size) /\ NoEqualAlong(t_board, t_dir, t_size)) =>
              /\ t_res.slid = t_board
              /\ t_pc = "make_move" => (~t_res.move_made /\ t_res.board = t_board)

\* make_move to the left has reported no change on a board of side 3 that
\* holds a packed row of two tiles, and other tiles that could move up
C21_Witness ==
    /\ t_pc = "make_move" /\ t_dir = "a" /\ t_size = 3 /\ ~t_res.move_made
    /\ t_board[4] # 0 /\ t_board[5] # 0 /\ t_board[6] = 0
    /\ ProcessMove(t_board, "w", t_size).board # t_board

RECURSIVE SumOf(_)
SumOf(list) == IF list = <<>> THEN 0 ELSE Head(list) + SumOf(Tail(list))

\* C22 (SpecMove): the slide/merge of a move leaves the sum of the cells as
\* it was, and the score it returns is the sum of the values of the tiles
\* its merges made (0 iff there was no merge); a make_move that reports a
\* change raises the sum of the cells by the spawned tile, 2 or 4, and one
\* that reports none leaves it.
C22_SumsAndScore ==
    /\ t_pc = "_process_move" =>
          /\ SumOf(t_res.board) = SumOf(t_board)
          /\ t_res.score = SumOf(t_res.made)
          /\ t_res.score = 0 <=> t_res.made = <<>>
          /\ t_res.made = <<>> <=> t_res.merged = {}
    /\ t_pc = "make_move" =>
          /\ SumOf(t_res.slid) = SumOf(t_board)
          /\ IF t_res.move_made
             THEN SumOf(t_res.board) - SumOf(t_board) \in {2, 4}
             ELSE SumOf(t_res.board) = SumOf(t_board)

\* one lane has seen two merges, the second taking the tile the first made:
\* the score counts both tiles
C22_Witness ==
    /\ t_pc = "_process_move" /\ t_res.twice
    /\ t_res.made = <<4, 8>> /\ t_res.score = 12

\* C23 (SpecBoard): on a grid that holds a tile, is_game_over() is true iff
\* make_move reports no change in each of the four directions.
C23_GameOverIffNoMove ==
    (t_pc = "is_game_over" /\ \E i \in 1..Len(t_board) : t_board[i] # 0) =>
        (t_res.over <=>
            \A k \in Keys : \A out \in LogicMakeMove(t_board, k, t_size) :
                ~out.move_made)

\* is_game_over() has returned False on a full board of side 4, where only
\* merges can change the grid
C23_Witness ==
    /\ t_pc = "is_game_over" /\ ~t_res.over
    /\ t_size = 4 /\ EmptyCells(t_board) = {}

C24_State ==
    /\ state = "playing" => ~NoMoveLeft(board, BoardSize)
    /\ state = "game_over" => NoMoveLeft(board, BoardSize)

C24_Step ==
    (state = "game_over" /\ op' \notin StartOps) =>
        board' = board /\ score' = score

\* C24 (Spec): while the state is Playing the live grid is not terminal,
\* after an undo as well; while it is GameOver the live grid is terminal,
\* and no operation but start_game (reset_game calls it) changes the grid or
\* the score.
C24_StateMatchesGrid == []C24_State /\ [][C24_Step]_vars

\* a move has been tried on the terminal grid of a game that is over
C24_Witness ==
    /\ state = "game_over" /\ op = "make_move" /\ ret = FALSE
    /\ NoMoveLeft(board, BoardSize)

\* a step of the loop changes the board
C25_Step == op' = "run" => board' # board

\* C25 (SpecLoop): in a game the loop plays with the automatic player,
\* every make_move changes the board and the stuck counter is 0 in every
\* state, so that get_move never takes a random branch (stuck_counter > 5).
C25_NeverStuck == [](stuck_counter = 0) /\ [][C25_Step]_vars

\* the automatic player has made a move that scored, late in a game
C25_Witness ==
    /\ current_player = "AI" /\ op = "run" /\ before_move # <<>>
    /\ board # before_move[1]
    /\ gain > 0 /\ score >= 32 /\ state = "playing"

\* C26 (SpecLoopFair): a game played by the automatic player under the
\* loop reaches the GameOver state.
C26_GameEnds == (state = "playing") ~> (state = "game_over")

\* the automatic player's game is over
C26_Witness ==
    /\ current_player = "AI" /\ state = "game_over"
    /\ op = "run" /\ score > 0 /\ NoMoveLeft(board, BoardSize)

=============================================================================
